---- MODULE Spec2Model ----
(***************************************************************************)
(* Background-job wiring of the fastapi-democode template.                  *)
(*                                                                         *)
(* The repository's own code on the job path is:                           *)
(*   - app/worker.py: the list BACKGROUND_FUNCTIONS of dotted paths, the   *)
(*     list FUNCTIONS built from it by import_string at import time, the   *)
(*     startup/shutdown hooks and the settings mapping handed to saq;      *)
(*   - app/users/routes.py: the route log_user_info, which enqueues the    *)
(*     job "log_user_email" for the authenticated user;                    *)
(*   - manage.py: the commands that launch the server and the worker.      *)
(* The queue itself (dequeue, ack, retry, job status) is the saq library   *)
(* and is not part of this model: the store below only records what the    *)
(* producer handed to queue.enqueue.                                       *)
(***************************************************************************)
EXTENDS Naturals, Sequences, FiniteSets

\* Bound on the number of job records kept in the store.
MaxJobs == 3

\* The e-mail addresses requests and create-user draw from.
Emails == {"a@example.com", "b@example.com"}

\* A request without valid credentials.
Anonymous == "anonymous"

\* The two operating-system processes that import app.worker.
Procs == {"server", "worker"}

VARIABLES
    pc,          \* pc[p]: where process p is in its life
    FUNCTIONS,   \* FUNCTIONS[p]: app.worker.FUNCTIONS as built so far in p
    db_bound,    \* db_bound[p]: Tortoise connections are initialised in p
    users,       \* e-mails of the users in the database
    store,       \* the job records handed to queue.enqueue, oldest first
    last_status  \* HTTP status of the last /users/log-user-info request

vars == <<pc, FUNCTIONS, db_bound, users, store, last_status>>

\* app/worker.py: the dotted paths of the background functions.
BACKGROUND_FUNCTIONS ==
    << <<"app", "users", "tasks", "log_user_email">>,
       <<"app", "services", "email", "send_email_task">> >>

\* The callables app.services.email defines at module level.
EmailModuleAttrs == {"get_mailer", "render_email_template", "send_email_task"}

\* The callables app.users.tasks defines at module level.
TasksModuleAttrs == {"log_user_email"}

\* What a module offers to getattr.
ModuleAttrs(m) ==
    CASE m = <<"app", "services", "email">> -> EmailModuleAttrs
      [] m = <<"app", "users", "tasks">>    -> TasksModuleAttrs
      [] OTHER                              -> {}

ImportError == [module |-> <<>>, qualname |-> "ImportError"]

\* pydantic's import_string as app/worker.py uses it: split the dotted path
\* at its last dot, import the module, fetch the attribute.
import_string(path) ==
    LET module_path == SubSeq(path, 1, Len(path) - 1)
        class_name  == path[Len(path)]
    IN  IF class_name \in ModuleAttrs(module_path)
        THEN [module |-> module_path, qualname |-> class_name]
        ELSE ImportError

\* The names under which a process's FUNCTIONS are offered to the worker.
RegistryNames(p) == {FUNCTIONS[p][i].qualname : i \in 1..Len(FUNCTIONS[p])}

\* app.core.auth.current_user(active=True): the user behind the credentials,
\* or none.
current_user(cred) == IF cred \in users THEN cred ELSE Anonymous

Init ==
    /\ pc = [p \in Procs |-> "stopped"]
    /\ FUNCTIONS = [p \in Procs |-> <<>>]
    /\ db_bound = [p \in Procs |-> FALSE]
    /\ users = {}
    /\ store = <<>>
    /\ last_status = 0

\* manage.py run-server / run-worker: a fresh interpreter starts importing.
run_process(p) ==
    /\ pc[p] = "stopped"
    /\ pc' = [pc EXCEPT ![p] = "importing"]
    /\ FUNCTIONS' = [FUNCTIONS EXCEPT ![p] = <<>>]
    /\ UNCHANGED <<db_bound, users, store, last_status>>

run_server == run_process("server")

run_worker == run_process("worker")

\* app/worker.py line 12, one element of the list comprehension; once the
\* list is complete the rest of the module (queue, settings) is evaluated.
ImportWorkerModule(p) ==
    /\ pc[p] = "importing"
    /\ LET n == Len(FUNCTIONS[p]) IN
        IF n < Len(BACKGROUND_FUNCTIONS)
        THEN LET f == import_string(BACKGROUND_FUNCTIONS[n + 1]) IN
             IF f = ImportError
             THEN /\ pc' = [pc EXCEPT ![p] = "import_failed"]
                  /\ UNCHANGED FUNCTIONS
             ELSE /\ FUNCTIONS' = [FUNCTIONS EXCEPT ![p] = Append(@, f)]
                  /\ UNCHANGED pc
        ELSE /\ pc' = [pc EXCEPT ![p] = "loaded"]
             /\ UNCHANGED FUNCTIONS
    /\ UNCHANGED <<db_bound, users, store, last_status>>

\* app/worker.py startup hook, and register_db on the server side.
startup(p) ==
    /\ pc[p] = "loaded"
    /\ pc' = [pc EXCEPT ![p] = "running"]
    /\ db_bound' = [db_bound EXCEPT ![p] = TRUE]
    /\ UNCHANGED <<FUNCTIONS, users, store, last_status>>

\* app/worker.py shutdown hook: the connections are closed and the process
\* exits (hupper restarts it on reload).
shutdown(p) ==
    /\ pc[p] = "running"
    /\ pc' = [pc EXCEPT ![p] = "stopped"]
    /\ db_bound' = [db_bound EXCEPT ![p] = FALSE]
    /\ FUNCTIONS' = [FUNCTIONS EXCEPT ![p] = <<>>]
    /\ UNCHANGED <<users, store, last_status>>

\* manage.py create-user: a new user, or UserAlreadyExists.
create_user(email) ==
    /\ users' = users \cup {email}
    /\ email \notin users
    /\ UNCHANGED <<pc, FUNCTIONS, db_bound, store, last_status>>

\* The job record queue.enqueue(name, **kwargs) persists.
Job(name, kwargs) == [function |-> name, kwargs |-> kwargs]

log_user_info_wrong_name(cred) ==
    /\ pc["server"] = "running"
    /\ Len(store) < MaxJobs
    /\ LET user == current_user(cred) IN
        IF user = Anonymous
        THEN /\ last_status' = 401
             /\ UNCHANGED store
        ELSE /\ store' = Append(store, Job("log_user_info", [user_email |-> user]))
             /\ last_status' = 200
    /\ UNCHANGED <<pc, FUNCTIONS, db_bound, users>>

\* GET /users/log-user-info: 401 without an active user, else the job
\* "log_user_email" is enqueued with the user's e-mail.
log_user_info(cred) ==
    /\ pc["server"] = "running"
    /\ Len(store) < MaxJobs
    /\ LET user == current_user(cred) IN
        IF user = Anonymous
        THEN /\ last_status' = 401
             /\ UNCHANGED store
        ELSE /\ store' = Append(store, Job("log_user_email", [user_email |-> user]))
             /\ last_status' = 200
    /\ UNCHANGED <<pc, FUNCTIONS, db_bound, users>>

Next ==
    \/ run_server
    \/ run_worker
    \/ \E p \in Procs : ImportWorkerModule(p)
    \/ \E p \in Procs : startup(p)
    \/ \E p \in Procs : shutdown(p)
    \/ \E email \in Emails : create_user(email)
    \/ \E cred \in Emails \cup {Anonymous} : log_user_info(cred)

Spec == Init /\ [][Next]_vars

TypeOK ==
    /\ pc \in [Procs -> {"stopped", "importing", "import_failed", "loaded", "running"}]
    /\ \A p \in Procs : Len(FUNCTIONS[p]) <= Len(BACKGROUND_FUNCTIONS)
    /\ db_bound \in [Procs -> BOOLEAN]
    /\ users \subseteq Emails
    /\ Len(store) <= MaxJobs
    /\ last_status \in {0, 200, 401}

\* A process whose import of app.worker has completed.
Loaded(p) == pc[p] \in {"loaded", "running"}

\* C10: once the worker has imported app.worker, its registry holds exactly
\* the names of BACKGROUND_FUNCTIONS ("log_user_email", "send_email_task"),
\* in every later state until the process exits, and every job record the
\* producer has put in the store names one of them.
C10_ProducerNamesRegistered ==
    /\ \A p \in Procs :
        Loaded(p) => RegistryNames(p) = {"log_user_email", "send_email_task"}
    /\ \A i \in 1..Len(store) :
        /\ store[i].function \in {"log_user_email", "send_email_task"}
        /\ Loaded("worker") => store[i].function \in RegistryNames("worker")

\* C10 witness: the producer has enqueued a job for a user while a worker
\* with a fully built registry is running.
C10_Witness ==
    /\ pc["worker"] = "running"
    /\ Len(store) >= 1
    /\ store[1] = Job("log_user_email", [user_email |-> "a@example.com"])
    /\ last_status = 200

====
